---- MODULE Spec2Model ----
(***************************************************************************)
(* Model of the Touchstone loaders of snpviewer and of the widgets and     *)
(* the service layer over them.                                            *)
(*                                                                         *)
(*   snpviewer/io/touchstone_loader.py   the strict loader (load_network,  *)
(*                                       get_reference_impedance)          *)
(*   snpviewer/touchstone_loader.py      the lightweight loader            *)
(*                                       (load_network,                    *)
(*                                       _infer_ports_from_extension)      *)
(*   snpviewer/plotting/sparam_plot.py   the plot widget                   *)
(*   snpviewer/ui/sparam_browser.py      the browser widget                *)
(*   snpviewer/services/network_service.py, snpviewer/ui/main_window.py    *)
(*                                       the service layer and the handler *)
(*                                       that opens a file through it      *)
(*                                                                         *)
(* Text is modelled as sequences of characters, one string per character.  *)
(* Three characters are spelled by name: "LF" is the line feed, "sup2" is  *)
(* SUPERSCRIPT TWO (U+00B2, a character for which str.isdigit() is true    *)
(* and int() fails) and "long_s" is LATIN SMALL LETTER LONG S (U+017F,     *)
(* which the regular expression letter s matches under re.IGNORECASE).     *)
(***************************************************************************)
EXTENDS Integers, Sequences, FiniteSets, TLC

VARIABLES
    suffix,        \* Path(path).suffix of the path handed to the loader
    kind,          \* what the path refers to: "missing", "file", "dir", "fifo"
    readable,      \* os.access(path, os.R_OK)
    content,       \* the raw lines of the file, in file order
    other,         \* the raw lines of another file, at a valid path
    strictResult,  \* what io.touchstone_loader.load_network did
    portsResult,   \* what _infer_ports_from_extension did
    frequencies,   \* the list `frequencies` of the latest lightweight load
    lightResult,   \* outcome of the latest lightweight load of the path
    prevResult,    \* outcome of the lightweight load of the path before it
    z0,            \* network.z0 of a parsed network
    z0Result,      \* what get_reference_impedance returned for it
    network,       \* SParameterPlotWidget._network: None, or its port count
    traceMap,      \* SParameterPlotWidget._trace_map
    currentRow,    \* trace_list.currentRow(), -1 when there is none
    plotted,       \* the traces drawn on the axes by the latest refresh_plot
    labels,        \* the labels of the latest set_selected_trace_labels
    stage,         \* the latest operation on the widgets
    comboItems,    \* the entries of SParameterBrowserWidget.parameter_combo
    comboIndex,    \* parameter_combo.currentIndex(), -1 when there is none
    serviceResult, \* what NetworkService.load_touchstone did
    window         \* what the main window shows after _on_open_touchstone

\* the state of the loaders
loaderVars == <<suffix, kind, readable, content, other, strictResult,
                portsResult, frequencies, lightResult, prevResult, z0,
                z0Result>>

\* the state of the plot widget, of the browser widget and of the main window
uiVars == <<network, traceMap, currentRow, plotted, labels, stage, comboItems,
            comboIndex, serviceResult, window>>

vars == <<loaderVars, uiVars>>

(***************************************************************************)
(* Bounds of the model.                                                    *)
(***************************************************************************)
MaxSuffixLen == 4

MaxWidth == 2

MaxLines == 2

LongRowPad == 50

\* line[:50] of the lightweight loader
MessageChars == 50

None == [tag |-> "none"]

\* the widgets as constructed, the main window with its empty summary panel
UiIdle ==
    /\ network = None /\ traceMap = <<>> /\ currentRow = -1
    /\ plotted = <<>> /\ labels = {} /\ stage = "new"
    /\ comboItems = <<>> /\ comboIndex = -1
    /\ serviceResult = None /\ window = [shown |-> "empty"]

SeqsUpTo(S, n) == UNION {[1..k -> S] : k \in 0..n}

(***************************************************************************)
(* Characters.                                                             *)
(***************************************************************************)
SuffixChars == {"s", "S", "long_s", "p", "t", "0", "1", "sup2", "LF"}

\* str.lower(), character by character
LowerChar(c) ==
    CASE c = "S" -> "s"
      [] c = "P" -> "p"
      [] c = "T" -> "t"
      [] c = "N" -> "n"
      [] c = "A" -> "a"
      [] OTHER -> c

Lower(s) == [i \in 1..Len(s) |-> LowerChar(s[i])]

\* the characters int() and the pattern \d take as decimal digits
DecimalChars == {"0", "1", "2", "5"}

\* the characters for which str.isdigit() is true
DigitChars == DecimalChars \cup {"sup2"}

DigitValue(c) ==
    CASE c = "0" -> 0
      [] c = "1" -> 1
      [] c = "2" -> 2
      [] c = "5" -> 5

\* str.isdigit(): every character is a digit and there is at least one
IsDigit(s) == Len(s) >= 1 /\ \A i \in 1..Len(s) : s[i] \in DigitChars

\* the strings int() converts
IsDecimal(s) == Len(s) >= 1 /\ \A i \in 1..Len(s) : s[i] \in DecimalChars

RECURSIVE DecimalValue(_)
DecimalValue(s) ==
    IF Len(s) = 0 THEN 0
    ELSE 10 * DecimalValue(SubSeq(s, 1, Len(s) - 1)) + DigitValue(s[Len(s)])

\* the suffixes Path.suffix can return: none, or a dot and at least one character
Suffixes ==
    {<<>>} \cup {<<".">> \o cs : cs \in SeqsUpTo(SuffixChars, MaxSuffixLen) \ {<<>>}}

(***************************************************************************)
(* snpviewer/touchstone_loader.py: _infer_ports_from_extension             *)
(***************************************************************************)
Raised(cls) == [tag |-> "raised", error |-> cls]

Ports(n) == [tag |-> "ports", n |-> n]

StartsWithDotS(s) == Len(s) >= 2 /\ s[1] = "." /\ s[2] = "s"

EndsWithP(s) == Len(s) >= 1 /\ s[Len(s)] = "p"

\* suffix[2:-1]
PortText(s) == SubSeq(s, 3, Len(s) - 1)

\* num_ports < 0
PortCountNegative(n) == n < 0

\* num_ports <= 0
PortCountRejected(n) == n <= 0

InferPortsFromExtension(sfx) ==
    LET s == Lower(sfx) IN
    IF ~StartsWithDotS(s) \/ ~EndsWithP(s) THEN Raised("TouchstoneLoadError")
    ELSE IF ~IsDigit(PortText(s)) THEN Raised("TouchstoneLoadError")
    ELSE IF ~IsDecimal(PortText(s)) THEN Raised("ValueError")
    ELSE IF PortCountRejected(DecimalValue(PortText(s)))
         THEN Raised("TouchstoneLoadError")
    ELSE Ports(DecimalValue(PortText(s)))

(***************************************************************************)
(* Specification of the port inference: a path, then one call.             *)
(***************************************************************************)
Idle ==
    /\ kind = "missing" /\ readable = FALSE /\ content = <<>> /\ other = <<>>
    /\ strictResult = None /\ frequencies = <<>>
    /\ lightResult = None /\ prevResult = None
    /\ z0 = None /\ z0Result = None
    /\ UiIdle

InitPorts ==
    /\ suffix \in Suffixes
    /\ portsResult = None
    /\ Idle

InferPorts ==
    /\ portsResult = None
    /\ portsResult' = InferPortsFromExtension(suffix)
    /\ UNCHANGED <<suffix, kind, readable, content, other, strictResult,
                   frequencies, lightResult, prevResult, z0, z0Result,
                   uiVars>>

NextPorts == InferPorts

SpecPorts == InitPorts /\ [][NextPorts]_vars

(***************************************************************************)
(* C8.  _infer_ports_from_extension returns N exactly when the suffix,     *)
(* compared case-insensitively, is a dot, the letter s, one or more        *)
(* decimal digits spelling a value N > 0 and the letter p; for every other *)
(* suffix it fails with TouchstoneLoadError.                               *)
(***************************************************************************)
IsSnpSuffix(sfx) ==
    /\ Len(sfx) >= 4
    /\ sfx[1] = "."
    /\ sfx[2] \in {"s", "S"}
    /\ sfx[Len(sfx)] \in {"p", "P"}
    /\ \A i \in 3..(Len(sfx) - 1) : sfx[i] \in DecimalChars

SnpValue(sfx) == DecimalValue(SubSeq(sfx, 3, Len(sfx) - 1))

C8_PortInference ==
    portsResult # None =>
        IF IsSnpSuffix(suffix) /\ SnpValue(suffix) > 0
        THEN portsResult = Ports(SnpValue(suffix))
        ELSE portsResult = Raised("TouchstoneLoadError")

(***************************************************************************)
(* snpviewer/io/touchstone_loader.py: the strict loader.                   *)
(***************************************************************************)
LoaderErrors ==
    {"TouchstoneFileNotFoundError", "UnsupportedTouchstoneFormatError",
     "TouchstoneFileReadError", "TouchstoneParseError"}

\* Python's exception classes: the base class of each
ExceptionParent(cls) ==
    CASE cls = "FileNotFoundError" -> "OSError"
      [] cls = "PermissionError" -> "OSError"
      [] cls = "IsADirectoryError" -> "OSError"
      [] cls = "OSError" -> "Exception"
      [] cls = "UnicodeDecodeError" -> "ValueError"
      [] cls = "ValueError" -> "Exception"
      [] cls = "IndexError" -> "LookupError"
      [] cls = "KeyError" -> "LookupError"
      [] cls = "LookupError" -> "Exception"
      [] cls = "ModuleNotFoundError" -> "ImportError"
      [] cls = "ImportError" -> "Exception"
      [] cls = "RuntimeError" -> "Exception"
      [] cls = "Exception" -> "BaseException"
      [] OTHER -> "BaseException"

RECURSIVE IsSubclass(_, _)
IsSubclass(cls, base) ==
    \/ cls = base
    \/ cls # "BaseException" /\ IsSubclass(ExceptionParent(cls), base)

\* a try statement's except clauses, tried in order; an exception that no
\* clause matches propagates as it is
RECURSIVE Handle(_, _)
Handle(clauses, exc) ==
    IF clauses = <<>> THEN Raised(exc)
    ELSE IF \E cls \in Head(clauses).classes : IsSubclass(exc, cls)
         THEN Raised(Head(clauses).raises)
         ELSE Handle(Tail(clauses), exc)

\* what skrf.Network(path) can do: return a network, or raise. The classes
\* are those a parser raises, all derived from Exception.
LibraryExceptions ==
    {"FileNotFoundError", "PermissionError", "IsADirectoryError", "OSError",
     "UnicodeDecodeError", "ValueError", "IndexError", "KeyError",
     "RuntimeError"}

LibraryOutcomes == {"network"} \cup LibraryExceptions

\* what importlib.import_module("skrf") can do: return the module, or raise
ImportFailures == {"ModuleNotFoundError", "ImportError"}

ImportOutcomes == {"module"} \cup ImportFailures

\* the letters the pattern's s and p match under re.IGNORECASE
PatternLetterS == {"s", "S", "long_s"}

PatternLetterP == {"p", "P"}

\* the pattern's $: at the end, or just before a line feed that ends the string
PatternAtEnd(s, j) == j = Len(s) \/ (j + 1 = Len(s) /\ s[Len(s)] = "LF")

PatternDigits(s, a, b) == a <= b /\ \A k \in a..b : s[k] \in DecimalChars

\* _SUPPORTED_TOUCHSTONE_PATTERN.search(s)
SupportedTouchstonePattern(s) ==
    \E i \in 1..Len(s) : \E j \in (i + 3)..Len(s) :
        /\ s[i] = "."
        /\ s[i + 1] \in PatternLetterS
        /\ PatternDigits(s, i + 2, j - 1)
        /\ s[j] \in PatternLetterP
        /\ PatternAtEnd(s, j)

\* the pattern with \d* in place of \d+
SupportedTouchstoneAnyDigits(sfx) ==
    LET s == Lower(sfx) IN
    \/ s = <<".", "t", "s">>
    \/ \E i \in 1..Len(s) : \E j \in (i + 2)..Len(s) :
           /\ s[i] = "."
           /\ s[i + 1] \in PatternLetterS
           /\ \A k \in (i + 2)..(j - 1) : s[k] \in DecimalChars
           /\ s[j] \in PatternLetterP
           /\ PatternAtEnd(s, j)

IsSupportedTouchstone(sfx) ==
    LET s == Lower(sfx) IN
    s = <<".", "t", "s">> \/ SupportedTouchstonePattern(s)

ImportClauses ==
    <<[classes |-> {"ModuleNotFoundError"}, raises |-> "TouchstoneParseError"]>>

LoadSkrf(imp) ==
    IF imp = "module" THEN [tag |-> "module"] ELSE Handle(ImportClauses, imp)

\* the except clauses with the general OSError clause tried first
NetworkClausesGeneralFirst ==
    <<[classes |-> {"ValueError", "IndexError", "UnicodeDecodeError", "OSError"},
       raises |-> "TouchstoneParseError"],
      [classes |-> {"FileNotFoundError"},
       raises |-> "TouchstoneFileNotFoundError"],
      [classes |-> {"PermissionError"}, raises |-> "TouchstoneFileReadError"],
      [classes |-> {"Exception"}, raises |-> "TouchstoneParseError"]>>

NetworkClauses ==
    <<[classes |-> {"FileNotFoundError"},
       raises |-> "TouchstoneFileNotFoundError"],
      [classes |-> {"PermissionError"}, raises |-> "TouchstoneFileReadError"],
      [classes |-> {"ValueError", "IndexError", "UnicodeDecodeError", "OSError"},
       raises |-> "TouchstoneParseError"],
      [classes |-> {"Exception"}, raises |-> "TouchstoneParseError"]>>

ParseNetwork(lib) ==
    IF lib = "network" THEN [tag |-> "network"] ELSE Handle(NetworkClauses, lib)

StrictOutcome(calls, imp, lib, outcome) ==
    [calls |-> calls, imported |-> imp, library |-> lib, outcome |-> outcome]

\* the checks with the extension looked at before the kind of the path
ValidatePathExtensionFirst(sfx, k, r) ==
    IF k = "missing"
    THEN [calls |-> <<"exists">>,
          outcome |-> Raised("TouchstoneFileNotFoundError")]
    ELSE IF ~IsSupportedTouchstone(sfx)
    THEN [calls |-> <<"exists", "_is_supported_touchstone">>,
          outcome |-> Raised("UnsupportedTouchstoneFormatError")]
    ELSE IF k # "file"
    THEN [calls |-> <<"exists", "_is_supported_touchstone", "is_file">>,
          outcome |-> Raised("TouchstoneFileReadError")]
    ELSE IF ~r
    THEN [calls |-> <<"exists", "_is_supported_touchstone", "is_file",
                      "os.access">>,
          outcome |-> Raised("TouchstoneFileReadError")]
    ELSE [calls |-> <<"exists", "_is_supported_touchstone", "is_file",
                      "os.access">>,
          outcome |-> [tag |-> "passed"]]

\* load_network, lines 60-74: the four checks of the path, in order
ValidatePath(sfx, k, r) ==
    IF k = "missing"
    THEN [calls |-> <<"exists">>,
          outcome |-> Raised("TouchstoneFileNotFoundError")]
    ELSE IF k # "file"
    THEN [calls |-> <<"exists", "is_file">>,
          outcome |-> Raised("TouchstoneFileReadError")]
    ELSE IF ~IsSupportedTouchstone(sfx)
    THEN [calls |-> <<"exists", "is_file", "_is_supported_touchstone">>,
          outcome |-> Raised("UnsupportedTouchstoneFormatError")]
    ELSE IF ~r
    THEN [calls |-> <<"exists", "is_file", "_is_supported_touchstone",
                      "os.access">>,
          outcome |-> Raised("TouchstoneFileReadError")]
    ELSE [calls |-> <<"exists", "is_file", "_is_supported_touchstone",
                      "os.access">>,
          outcome |-> [tag |-> "passed"]]

\* load_network: sfx, k, r describe the path; imp and lib are what the import
\* and the parse do if the call gets to them
StrictLoadNetwork(sfx, k, r, imp, lib) ==
    LET checked == ValidatePath(sfx, k, r) IN
    IF checked.outcome.tag = "raised"
    THEN StrictOutcome(checked.calls, "not reached", "not reached",
                       checked.outcome)
    ELSE IF LoadSkrf(imp).tag = "raised"
    THEN StrictOutcome(checked.calls \o <<"_load_skrf">>, imp, "not reached",
                       LoadSkrf(imp))
    ELSE StrictOutcome(checked.calls \o <<"_load_skrf", "Network">>, imp, lib,
                       ParseNetwork(lib))

(***************************************************************************)
(* Specification of the strict loader: a path, then one load of it.        *)
(***************************************************************************)
PathKinds == {"missing", "file", "dir", "fifo"}

InitStrict ==
    /\ suffix \in Suffixes
    /\ kind \in PathKinds
    /\ readable \in (IF kind = "missing" THEN {FALSE} ELSE BOOLEAN)
    /\ content = <<>> /\ other = <<>>
    /\ strictResult = None /\ portsResult = None /\ frequencies = <<>>
    /\ lightResult = None /\ prevResult = None
    /\ z0 = None /\ z0Result = None
    /\ UiIdle

\* the environment's choices that the load of the path gets to
ImportsReached ==
    IF ValidatePath(suffix, kind, readable).outcome.tag = "passed"
    THEN ImportOutcomes ELSE {"module"}

ParsesReached(imp) ==
    IF ValidatePath(suffix, kind, readable).outcome.tag = "passed" /\ imp = "module"
    THEN LibraryOutcomes ELSE {"network"}

StrictLoad ==
    /\ strictResult = None
    /\ \E imp \in ImportsReached : \E lib \in ParsesReached(imp) :
           strictResult' = StrictLoadNetwork(suffix, kind, readable, imp, lib)
    /\ UNCHANGED <<suffix, kind, readable, content, other, portsResult,
                   frequencies, lightResult, prevResult, z0, z0Result,
                   uiVars>>

NextStrict == StrictLoad

SpecStrict == InitStrict /\ [][NextStrict]_vars

(***************************************************************************)
(* Claims about the strict loader.                                         *)
(***************************************************************************)
Range(f) == {f[i] : i \in DOMAIN f}

CheckOrder == <<"exists", "is_file", "_is_supported_touchstone", "os.access">>

\* the load stopped at the n-th check, having run the checks before it in order
StoppedAtCheck(n, error) ==
    /\ strictResult.calls = SubSeq(CheckOrder, 1, n)
    /\ strictResult.outcome = Raised(error)

(***************************************************************************)
(* C1.  The four checks run in the order exists, is-regular-file,          *)
(* supported-extension, readable, and the error is that of the first       *)
(* failing check: a missing path gives TouchstoneFileNotFoundError and an  *)
(* existing non-regular path TouchstoneFileReadError, whatever the         *)
(* extension; a regular file whose extension the check rejects gives       *)
(* UnsupportedTouchstoneFormatError, readable or not; a regular file with  *)
(* a supported extension that is not readable gives                        *)
(* TouchstoneFileReadError. In none of them is Network called.             *)
(***************************************************************************)
C1_FirstFailingCheck ==
    strictResult # None =>
        /\ kind = "missing" => StoppedAtCheck(1, "TouchstoneFileNotFoundError")
        /\ kind \in {"dir", "fifo"} =>
               StoppedAtCheck(2, "TouchstoneFileReadError")
        /\ kind = "file" /\ ~IsSupportedTouchstone(suffix) =>
               StoppedAtCheck(3, "UnsupportedTouchstoneFormatError")
        /\ kind = "file" /\ IsSupportedTouchstone(suffix) /\ ~readable =>
               StoppedAtCheck(4, "TouchstoneFileReadError")
        /\ \A n \in 1..Len(strictResult.calls) :
               n <= Len(CheckOrder) => strictResult.calls[n] = CheckOrder[n]
        /\ "Network" \in Range(strictResult.calls)
               => kind = "file" /\ IsSupportedTouchstone(suffix) /\ readable

C1_Witness ==
    /\ strictResult # None
    /\ kind = "dir"
    /\ ~IsSupportedTouchstone(suffix)
    /\ ~readable
    /\ strictResult.outcome = Raised("TouchstoneFileReadError")

(***************************************************************************)
(* C2.  For any existing path (regular file, directory or other object)    *)
(* whose extension is neither .ts nor of the form .s<digits>p,             *)
(* case-insensitively, load_network fails with                             *)
(* UnsupportedTouchstoneFormatError.                                       *)
(***************************************************************************)
IsTsSuffix(sfx) ==
    Len(sfx) = 3 /\ sfx[1] = "." /\ sfx[2] \in {"t", "T"} /\ sfx[3] \in {"s", "S"}

IsTouchstoneExtension(sfx) == IsTsSuffix(sfx) \/ IsSnpSuffix(sfx)

WithoutLineFeed(sfx) ==
    IF Len(sfx) >= 1 /\ sfx[Len(sfx)] = "LF"
    THEN SubSeq(sfx, 1, Len(sfx) - 1) ELSE sfx

ShortS(sfx) == [i \in 1..Len(sfx) |-> IF sfx[i] = "long_s" THEN "s" ELSE sfx[i]]

IsAcceptedExtension(sfx) ==
    \/ IsTsSuffix(sfx)
    \/ Len(sfx) >= 1 /\ IsSnpSuffix(<<".">> \o ShortS(Tail(WithoutLineFeed(sfx))))

MappedError(exc) ==
    CASE exc = "FileNotFoundError" -> "TouchstoneFileNotFoundError"
      [] exc = "PermissionError" -> "TouchstoneFileReadError"
      [] OTHER -> "TouchstoneParseError"

C3_LibraryErrorsMapped ==
    strictResult # None =>
        /\ strictResult.library \in LibraryExceptions =>
               strictResult.outcome = Raised(MappedError(strictResult.library))
        /\ (strictResult.imported \notin ImportFailures
              /\ strictResult.outcome.tag = "raised")
               => strictResult.outcome.error \in LoaderErrors

C3_Witness ==
    /\ strictResult # None
    /\ strictResult.library = "PermissionError"
    /\ "Network" \in Range(strictResult.calls)
    /\ strictResult.outcome = Raised("TouchstoneFileReadError")

(***************************************************************************)
(* C9.  If the import of the library fails, the load of a path that passed *)
(* the four checks fails with TouchstoneParseError, Network is never       *)
(* called, and no import failure reaches the caller as an exception that   *)
(* is not one of the loader's.                                             *)
(***************************************************************************)
C9_ImportFailure ==
    strictResult # None /\ strictResult.imported \in ImportFailures =>
        /\ strictResult.outcome = Raised("TouchstoneParseError")
        /\ "Network" \notin Range(strictResult.calls)

(***************************************************************************)
(* snpviewer/io/touchstone_loader.py: get_reference_impedance.             *)
(* A value of z0 is a number, a list of values, an array (an object with   *)
(* tolist()) or an object that is none of these.                           *)
(***************************************************************************)
Num(v) == [tag |-> "num", v |-> v]

List(items) == [tag |-> "list", items |-> items]

Array(items) == [tag |-> "array", items |-> items]

Opaque == [tag |-> "object"]

\* isinstance(z0, (int, float, complex))
IsScalar(z) == z.tag = "num"

\* value == flat_values[0]
ValuesEqual(a, b) == a = b

\* z0.tolist() where z0 has it
ToList(z) == IF z.tag = "array" THEN List(z.items) ELSE z

\* _flatten with one level only: a nested list is taken as a leaf
FlattenOneLevel(items) == items

\* _flatten: the leaves of the items, appended depth-first, left to right
RECURSIVE Flatten(_)
Flatten(items) ==
    IF items = <<>> THEN <<>>
    ELSE (IF Head(items).tag = "list"
          THEN Flatten(Head(items).items)
          ELSE <<Head(items)>>) \o Flatten(Tail(items))

GetReferenceImpedance(z) ==
    IF IsScalar(z) THEN z
    ELSE LET l == ToList(z) IN
         IF l.tag = "list"
         THEN LET flat_values == Flatten(l.items) IN
              IF /\ flat_values # <<>>
                 /\ \A i \in 1..Len(flat_values) :
                        ValuesEqual(flat_values[i], flat_values[1])
              THEN flat_values[1]
              ELSE l
         ELSE l

(***************************************************************************)
(* Specification of the impedance extraction: a network, then one call.    *)
(***************************************************************************)
Z0Leaves == {Num(50), Num(75)}

Z0Rows == {List(r) : r \in SeqsUpTo(Z0Leaves, MaxWidth)}

Z0Lists == {List(r) : r \in SeqsUpTo(Z0Leaves \cup Z0Rows, MaxWidth)}

Z0Values ==
    Z0Leaves \cup Z0Lists \cup {Array(l.items) : l \in Z0Lists} \cup {Opaque}

InitZ0 ==
    /\ z0 \in Z0Values
    /\ z0Result = None
    /\ suffix = <<>> /\ kind = "missing" /\ readable = FALSE
    /\ content = <<>> /\ other = <<>>
    /\ strictResult = None /\ portsResult = None /\ frequencies = <<>>
    /\ lightResult = None /\ prevResult = None
    /\ UiIdle

ExtractReferenceImpedance ==
    /\ z0Result = None
    /\ z0Result' = GetReferenceImpedance(z0)
    /\ UNCHANGED <<suffix, kind, readable, content, other, strictResult,
                   portsResult, frequencies, lightResult, prevResult, z0,
                   uiVars>>

NextZ0 == ExtractReferenceImpedance

SpecZ0 == InitZ0 /\ [][NextZ0]_vars

(***************************************************************************)
(* C4.  A z0 that is a numeric scalar is returned unchanged; otherwise, if *)
(* the nested list has at least one leaf and every leaf equals the first,  *)
(* the result is that one leaf; in every other case (two leaves differ, or *)
(* there is no leaf) the nested structure is returned with its nesting and *)
(* the order of its elements unchanged.                                    *)
(***************************************************************************)
RECURSIVE LeafSet(_)
LeafSet(z) ==
    IF z.tag = "num" THEN {z}
    ELSE UNION {LeafSet(z.items[i]) : i \in 1..Len(z.items)}

SameNesting(result, z) == result.tag = "list" /\ result.items = z.items

C4_ReferenceImpedance ==
    z0Result # None =>
        IF z0.tag = "num" THEN z0Result = z0
        ELSE IF z0.tag = "object" THEN z0Result = z0
        ELSE IF Cardinality(LeafSet(z0)) = 1 THEN z0Result \in LeafSet(z0)
        ELSE SameNesting(z0Result, z0)

C4_Witness ==
    /\ z0 = List(<<List(<<Num(50), Num(50)>>), List(<<Num(50), Num(50)>>)>>)
    /\ z0Result = Num(50)

(***************************************************************************)
(* snpviewer/touchstone_loader.py: the lightweight loader.                 *)
(* A file is the sequence of its raw lines; a raw line ends with "LF".     *)
(***************************************************************************)
Whitespace == {" ", "LF"}

\* str.strip()
RECURSIVE StripLeft(_)
StripLeft(s) ==
    IF s # <<>> /\ Head(s) \in Whitespace THEN StripLeft(Tail(s)) ELSE s

RECURSIVE StripRight(_)
StripRight(s) ==
    IF s # <<>> /\ s[Len(s)] \in Whitespace
    THEN StripRight(SubSeq(s, 1, Len(s) - 1)) ELSE s

Strip(s) == StripRight(StripLeft(s))

\* only blank lines are skipped
IsBlankOnly(line) == line = <<>>

\* not line or line.startswith("!") or line.startswith("#")
IsSkipped(line) == line = <<>> \/ line[1] = "!" \/ line[1] = "#"

\* line.split()[0] of a line that is stripped and not empty
RECURSIVE FirstToken(_)
FirstToken(line) ==
    IF line = <<>> \/ Head(line) \in Whitespace THEN <<>>
    ELSE <<Head(line)>> \o FirstToken(Tail(line))

Float(v) == [tag |-> "float", nan |-> FALSE, v |-> v]

NaN == [tag |-> "float", nan |-> TRUE, v |-> 0]

\* float(first_token), for tokens over the characters of the model: the
\* decimal numerals and "nan" in any case are converted
ParseFloat(token) ==
    IF IsDecimal(token) THEN Float(DecimalValue(token))
    ELSE IF Lower(token) = <<"n", "a", "n">> THEN NaN
    ELSE Raised("ValueError")

\* the == of two floats
FloatsEqual(a, b) == ~a.nan /\ ~b.nan /\ a.v = b.v

LightRaised(cls, message) == [tag |-> "raised", error |-> cls, message |-> message]

\* an exception of a callee, passing through load_network (its message is
\* not modelled)
Propagated(r) == LightRaised(r.error, <<>>)

Summary(path, num_ports, start, stop, count) ==
    [tag |-> "summary", path |-> path, num_ports |-> num_ports,
     frequency_start_hz |-> start, frequency_stop_hz |-> stop,
     point_count |-> count]

\* line[:49]
RowExcerptShort(line) == SubSeq(line, 1, IF Len(line) < MessageChars - 1
                                         THEN Len(line) ELSE MessageChars - 1)

\* line[:50]
RowExcerpt(line) == SubSeq(line, 1, IF Len(line) < MessageChars
                                    THEN Len(line) ELSE MessageChars)

InvalidRowMessage(line) ==
    <<"Invalid data row encountered: '">> \o RowExcerpt(line) \o <<"...'">>

\* the for loop over the lines of the file, lines 42-53
RECURSIVE ScanRows(_, _)
ScanRows(lines, freqs) ==
    IF lines = <<>> THEN [raised |-> None, frequencies |-> freqs]
    ELSE LET line == Strip(Head(lines)) IN
         IF IsSkipped(line) THEN ScanRows(Tail(lines), freqs)
         ELSE LET value == ParseFloat(FirstToken(line)) IN
              IF value.tag = "raised"
              THEN [raised |-> LightRaised("TouchstoneLoadError",
                                           InvalidRowMessage(line)),
                    frequencies |-> freqs]
              ELSE ScanRows(Tail(lines), Append(freqs, value))

\* frequencies: list[float] = []
NewFrequencies == <<>>

\* file_path.open("r", ...)
OpenFile(k, r) ==
    IF k = "dir" THEN Raised("IsADirectoryError")
    ELSE IF ~r THEN Raised("PermissionError")
    ELSE [tag |-> "handle"]

\* load_network: the outcome, and the list `frequencies` as the call left it
LightLoadNetwork(sfx, k, r, lines) ==
    IF k = "missing"
    THEN [outcome |-> LightRaised("TouchstoneLoadError",
                                  <<"File does not exist: ", sfx>>),
          frequencies |-> frequencies]
    ELSE IF InferPortsFromExtension(sfx).tag = "raised"
    THEN [outcome |-> Propagated(InferPortsFromExtension(sfx)),
          frequencies |-> frequencies]
    ELSE IF OpenFile(k, r).tag = "raised"
    THEN [outcome |-> Propagated(OpenFile(k, r)),
          frequencies |-> NewFrequencies]
    ELSE LET scan == ScanRows(lines, NewFrequencies)
             freqs == scan.frequencies
         IN  IF scan.raised # None
             THEN [outcome |-> scan.raised, frequencies |-> freqs]
             ELSE IF freqs = <<>>
             THEN [outcome |->
                       LightRaised("TouchstoneLoadError",
                                   <<"No frequency data rows were found.">>),
                   frequencies |-> freqs]
             ELSE [outcome |->
                       Summary(sfx, InferPortsFromExtension(sfx).n,
                               freqs[1], freqs[Len(freqs)], Len(freqs)),
                   frequencies |-> freqs]

(***************************************************************************)
(* Specification of the lightweight loader: a path and another file, then  *)
(* loads of the path and of the other file in any order. Neither file      *)
(* changes.                                                                *)
(***************************************************************************)
Pad(c, n) == [i \in 1..n |-> c]

BlankRow == <<"LF">>

SpacesRow == <<" ", " ", "LF">>

BangRow == <<"!", " ", "c", "LF">>

HashRow == <<" ", "#", " ", "h", "LF">>

OneRow == <<"1", " ", "5", "LF">>

TwoRow == <<" ", "2", " ", "5", "LF">>

NanRow == <<"N", "a", "N", " ", "5", "LF">>

BadRow == <<"a", "b", " ", "1", "LF">>

LongBadRow == <<" ", "b">> \o Pad("x", LongRowPad) \o <<" ", "1", "LF">>

RawLines ==
    {BlankRow, SpacesRow, BangRow, HashRow, OneRow, TwoRow, NanRow, BadRow,
     LongBadRow}

Contents == SeqsUpTo(RawLines, MaxLines)

OtherContents == {<<>>, <<OneRow>>, <<TwoRow, BadRow>>}

ScanSuffixes ==
    {<<>>, <<".", "s", "1", "p">>, <<".", "S", "1", "0", "P">>,
     <<".", "s", "0", "p">>, <<".", "s", "p">>, <<".", "s", "sup2", "p">>,
     <<".", "t", "s">>}

InitLight ==
    /\ suffix \in ScanSuffixes
    /\ kind \in {"missing", "file", "dir"}
    /\ readable \in (IF kind = "file" THEN BOOLEAN ELSE {kind = "dir"})
    /\ content \in (IF kind = "file" /\ readable THEN Contents ELSE {<<>>})
    /\ other \in OtherContents
    /\ frequencies = <<>>
    /\ lightResult = None /\ prevResult = None
    /\ strictResult = None /\ portsResult = None
    /\ z0 = None /\ z0Result = None
    /\ UiIdle

\* load_network(path)
LoadPath ==
    /\ prevResult = None
    /\ LET loaded == LightLoadNetwork(suffix, kind, readable, content) IN
       /\ lightResult' = loaded.outcome
       /\ frequencies' = loaded.frequencies
    /\ prevResult' = lightResult
    /\ UNCHANGED <<suffix, kind, readable, content, other, strictResult,
                   portsResult, z0, z0Result,
                   uiVars>>

\* load_network of the other file, a readable regular file named *.s1p
LoadOther ==
    /\ prevResult = None
    /\ frequencies' =
           LightLoadNetwork(<<".", "s", "1", "p">>, "file", TRUE, other).frequencies
    /\ UNCHANGED <<suffix, kind, readable, content, other, strictResult,
                   portsResult, lightResult, prevResult, z0, z0Result,
                   uiVars>>

NextLight == LoadPath \/ LoadOther

SpecLight == InitLight /\ [][NextLight]_vars

(***************************************************************************)
(* Claims about the lightweight loader. A data line is a line that has a   *)
(* character other than whitespace, the first of which is neither ! nor #. *)
(***************************************************************************)
Inked(line) == {i \in 1..Len(line) : line[i] \notin Whitespace}

FirstInk(line) == CHOOSE i \in Inked(line) : \A j \in Inked(line) : i <= j

LastInk(line) == CHOOSE i \in Inked(line) : \A j \in Inked(line) : j <= i

IsDataLine(line) == Inked(line) # {} /\ line[FirstInk(line)] \notin {"!", "#"}

\* the line after trimming
Trimmed(line) == SubSeq(line, FirstInk(line), LastInk(line))

\* the first whitespace-delimited token of a data line
LeadingToken(line) ==
    LET first == FirstInk(line)
        last == CHOOSE e \in first..Len(line) :
                    /\ \A i \in first..e : line[i] \notin Whitespace
                    /\ e = Len(line) \/ line[e + 1] \in Whitespace
    IN  SubSeq(line, first, last)

IsNumber(token) == ParseFloat(token).tag = "float"

DataLines(lines) == SelectSeq(lines, IsDataLine)

\* the load of the path gets to the lines of the file: the path is a
\* readable regular file named .sNp with N >= 1
FileIsScanned ==
    /\ kind = "file" /\ readable
    /\ IsSnpSuffix(suffix) /\ SnpValue(suffix) >= 1

Contains(text, piece) ==
    \E i \in 0..(Len(text) - Len(piece)) :
        SubSeq(text, i + 1, i + Len(piece)) = piece

(***************************************************************************)
(* C5.  For every file named .sNp with N >= 1 whose data lines all start   *)
(* with a numeric token and number at least one, the load returns a        *)
(* summary with num_ports = N, point_count = the number of data lines,     *)
(* frequency_start_hz = the first token of the first data line and         *)
(* frequency_stop_hz = the first token of the last one, in file order;     *)
(* blank and comment lines contribute to none of these.                    *)
(***************************************************************************)
C5_SummaryOfDataLines ==
    LET rows == DataLines(content) IN
    (/\ lightResult # None
     /\ FileIsScanned
     /\ rows # <<>>
     /\ \A i \in 1..Len(rows) : IsNumber(LeadingToken(rows[i])))
        => lightResult =
               Summary(suffix, SnpValue(suffix),
                       ParseFloat(LeadingToken(rows[1])),
                       ParseFloat(LeadingToken(rows[Len(rows)])), Len(rows))

C5_Witness ==
    /\ lightResult # None
    /\ suffix = <<".", "S", "1", "0", "P">>
    /\ content = <<HashRow, TwoRow>>
    /\ lightResult.tag = "summary"
    /\ lightResult.num_ports = 10
    /\ lightResult.point_count = 1
    /\ lightResult.frequency_start_hz = Float(2)

(***************************************************************************)
(* C6.  If a data line has a first token that is not a number, the load    *)
(* fails with TouchstoneLoadError and returns no summary, even when lines  *)
(* before it were valid; the error is that of the first such line in file  *)
(* order, and its message contains the first 50 characters of that line    *)
(* after trimming (the whole line when it is shorter).                     *)
(***************************************************************************)
BadLines(lines) ==
    {i \in 1..Len(lines) :
        IsDataLine(lines[i]) /\ ~IsNumber(LeadingToken(lines[i]))}

FirstBadLine(lines) ==
    lines[CHOOSE i \in BadLines(lines) : \A j \in BadLines(lines) : i <= j]

FirstChars(line, n) == SubSeq(line, 1, IF Len(line) < n THEN Len(line) ELSE n)

C6_InvalidRow ==
    (/\ lightResult # None
     /\ FileIsScanned
     /\ BadLines(content) # {})
        => /\ lightResult.tag = "raised"
           /\ lightResult.error = "TouchstoneLoadError"
           /\ Contains(lightResult.message,
                       FirstChars(Trimmed(FirstBadLine(content)), MessageChars))

C6_Witness ==
    /\ lightResult # None
    /\ suffix = <<".", "s", "1", "p">>
    /\ content = <<OneRow, LongBadRow>>
    /\ lightResult.tag = "raised"
    /\ Len(lightResult.message) = MessageChars + 2

(***************************************************************************)
(* C7.  Every summary the load returns has point_count >= 1 and            *)
(* num_ports >= 1: a file without data lines, the empty file included, and *)
(* a path named .s0p both end in TouchstoneLoadError and not in a summary  *)
(* with a zero count.                                                      *)
(***************************************************************************)
C7_SummaryCounts ==
    lightResult # None =>
        /\ lightResult.tag = "summary" =>
               lightResult.point_count >= 1 /\ lightResult.num_ports >= 1
        /\ FileIsScanned /\ DataLines(content) = <<>> =>
               /\ lightResult.tag = "raised"
               /\ lightResult.error = "TouchstoneLoadError"
        /\ Lower(suffix) = <<".", "s", "0", "p">> =>
               /\ lightResult.tag = "raised"
               /\ lightResult.error = "TouchstoneLoadError"

C7_Witness ==
    /\ lightResult # None
    /\ suffix = <<".", "s", "0", "p">>
    /\ kind = "file"
    /\ content = <<OneRow>>
    /\ lightResult.tag = "raised"

(***************************************************************************)
(* C10.  Two loads of the same path, the file unchanged, have the same     *)
(* outcome: two summaries equal field by field, or the same kind of error; *)
(* and this whatever loads were made before or between them.               *)
(***************************************************************************)
SummariesEqual(a, b) ==
    /\ a.path = b.path
    /\ a.num_ports = b.num_ports
    /\ FloatsEqual(a.frequency_start_hz, b.frequency_start_hz)
    /\ FloatsEqual(a.frequency_stop_hz, b.frequency_stop_hz)
    /\ a.point_count = b.point_count

C10_SameOutcome ==
    prevResult # None /\ lightResult # None =>
        \/ /\ prevResult.tag = "summary" /\ lightResult.tag = "summary"
           /\ SummariesEqual(prevResult, lightResult)
        \/ /\ prevResult.tag = "raised" /\ lightResult.tag = "raised"
           /\ prevResult.error = lightResult.error

(***************************************************************************)
(* snpviewer/plotting/sparam_plot.py: the plot widget.                     *)
(*                                                                         *)
(* A network is known to the widget by its port count (network.s.shape[1]).*)
(* A plotted line is identified by the trace it draws; the formatting of   *)
(* its values by the display mode is not part of the model.                *)
(***************************************************************************)
MaxPlotPorts == 2

Network(n) == [tag |-> "network", ports |-> n]

TraceSelection(i, j) == [i |-> i, j |-> j]

\* the decimal digits, in order
Digits == <<"0", "1", "2", "3", "4", "5", "6", "7", "8", "9">>

\* str(n) of a natural number
RECURSIVE DecimalString(_)
DecimalString(n) ==
    IF n < 10 THEN <<Digits[n + 1]>>
    ELSE DecimalString(n \div 10) \o <<Digits[(n % 10) + 1]>>

\* TraceSelection.label: f"S{self.i + 1}{self.j + 1}"
TraceLabel(trace) ==
    <<"S">> \o DecimalString(trace.i + 1) \o DecimalString(trace.j + 1)

\* for j in range(n_ports): self._trace_map.append(TraceSelection(i, j)):
\* the traces that the inner loop appends for one i, from j on
RECURSIVE AppendRow(_, _, _)
AppendRow(i, j, n) ==
    IF j >= n THEN <<>>
    ELSE <<TraceSelection(i, j)>> \o AppendRow(i, j + 1, n)

\* for i in range(n_ports): ...: the traces appended from i on
RECURSIVE AppendRows(_, _)
AppendRows(i, n) ==
    IF i >= n THEN <<>> ELSE AppendRow(i, 0, n) \o AppendRows(i + 1, n)

\* _populate_traces_from_network: the trace map, and the current row of the
\* trace list (cleared, filled, then row 0 if there is one)
PopulateTracesFromNetwork(net) ==
    LET map == IF net = None THEN <<>> ELSE AppendRows(0, net.ports) IN
    [traceMap |-> map, currentRow |-> IF Len(map) > 0 THEN 0 ELSE -1]

\* selected_traces
SelectedTraces(map, row) ==
    IF row < 0 \/ row >= Len(map) THEN <<>> ELSE <<map[row + 1]>>

\* refresh_plot: the axes are cleared, then one line per selected trace
RefreshPlot(net, map, row) ==
    IF net = None THEN <<>> ELSE SelectedTraces(map, row)

\* the loop of set_selected_trace_labels: the index of the first trace whose
\* label is in the set (where the loop breaks), -1 when the loop ends
\* without one
FirstLabelled(map, labelSet) ==
    LET found == {idx \in 0..(Len(map) - 1) :
                     TraceLabel(map[idx + 1]) \in labelSet}
    IN  IF found = {} THEN -1
        ELSE CHOOSE idx \in found : \A later \in found : idx <= later

\* set_selected_trace_labels: the current row of the trace list after it
SetSelectedTraceLabels(map, row, labelSet) ==
    LET idx == FirstLabelled(map, labelSet) IN
    IF idx = -1 THEN row ELSE idx

\* a label that names no trace of any network
ForeignLabel == <<"S", "0", "0">>

LabelsOf(map) == {TraceLabel(map[k]) : k \in 1..Len(map)}

InitPlot ==
    /\ suffix = <<>> /\ portsResult = None
    /\ Idle

\* set_network(network)
PlotSetNetwork ==
    \E n \in 1..MaxPlotPorts :
        LET populated == PopulateTracesFromNetwork(Network(n)) IN
        /\ network' = Network(n)
        /\ traceMap' = populated.traceMap
        /\ currentRow' = populated.currentRow
        /\ plotted' = RefreshPlot(Network(n), populated.traceMap,
                                  populated.currentRow)
        /\ stage' = "network"
        /\ UNCHANGED <<labels, comboItems, comboIndex, serviceResult, window,
                       loaderVars>>

\* the user picks a row of the trace list: currentRowChanged, refresh_plot
PlotClickTrace ==
    \E row \in 0..(Len(traceMap) - 1) :
        /\ row # currentRow
        /\ currentRow' = row
        /\ plotted' = RefreshPlot(network, traceMap, row)
        /\ stage' = "clicked"
        /\ UNCHANGED <<network, traceMap, labels, comboItems, comboIndex,
                       serviceResult, window, loaderVars>>

\* set_selected_trace_labels(labels); a change of the current row signals
\* currentRowChanged, which is connected to refresh_plot
PlotSetSelectedTraceLabels ==
    \E labelSet \in SUBSET (LabelsOf(traceMap) \cup {ForeignLabel}) :
        LET row == SetSelectedTraceLabels(traceMap, currentRow, labelSet) IN
        /\ network # None
        /\ labels' = labelSet
        /\ currentRow' = row
        /\ plotted' = IF row # currentRow
                      THEN RefreshPlot(network, traceMap, row) ELSE plotted
        /\ stage' = "labels"
        /\ UNCHANGED <<network, traceMap, comboItems, comboIndex,
                       serviceResult, window, loaderVars>>

\* refresh_plot()
PlotRefreshPlot ==
    /\ network # None
    /\ plotted' = RefreshPlot(network, traceMap, currentRow)
    /\ stage' = IF stage = "labels" THEN "plotted" ELSE stage
    /\ UNCHANGED <<network, traceMap, currentRow, labels, comboItems,
                   comboIndex, serviceResult, window, loaderVars>>

NextPlot ==
    \/ PlotSetNetwork
    \/ PlotClickTrace
    \/ PlotSetSelectedTraceLabels
    \/ PlotRefreshPlot

SpecPlot == InitPlot /\ [][NextPlot]_vars

(***************************************************************************)
(* C11.  After set_network, set_selected_trace_labels with a set of labels *)
(* and then refresh_plot, the plotted traces are exactly the traces of the *)
(* network whose label is in the set, one line for each of them.           *)
(***************************************************************************)
NamedTraces == {k \in 1..Len(traceMap) : TraceLabel(traceMap[k]) \in labels}

C11_SelectedByLabels ==
    stage = "plotted" =>
        /\ Len(plotted) = Cardinality(NamedTraces)
        /\ {plotted[k] : k \in 1..Len(plotted)}
               = {traceMap[k] : k \in NamedTraces}

(***************************************************************************)
(* snpviewer/services/network_service.py and snpviewer/ui/main_window.py:  *)
(* the service layer over the lightweight loader, and the handler of the   *)
(* main window that opens a file through it.                               *)
(***************************************************************************)
\* getattr(obj, name, default)
GetAttr(obj, name, default) == IF name \in DOMAIN obj THEN obj[name] ELSE default

\* the NetworkSummary of the service layer
ServiceNetworkSummary(path, num_ports, start, stop, count) ==
    [tag |-> "summary", path |-> path, num_ports |-> num_ports,
     frequency_start_hz |-> start, frequency_stop_hz |-> stop,
     point_count |-> count]

\* NetworkService._to_summary
ToSummary(file_path, loaded) ==
    LET f == GetAttr(loaded, "f", None)
        number_of_ports == GetAttr(loaded, "number_of_ports", None)
        num_ports == IF number_of_ports = None
                     THEN GetAttr(loaded, "nports", None)
                     ELSE number_of_ports
    IN  IF f = None
        THEN LightRaised("ValueError",
                 <<"Loaded object did not expose frequency data via '.f'.">>)
        ELSE IF Len(f) = 0
        THEN LightRaised("ValueError",
                 <<"The selected file has no frequency points.">>)
        ELSE IF num_ports = None
        THEN LightRaised("ValueError",
                 <<"Loaded object did not expose port count via '.number_of_ports' or '.nports'.">>)
        ELSE ServiceNetworkSummary(file_path, num_ports, f[1], f[Len(f)],
                                   Len(f))

\* NetworkService.load_touchstone: the outcome, and the list `frequencies`
\* of the loader as the call left it
LoadTouchstone(sfx, k, r, lines) ==
    LET loaded == LightLoadNetwork(sfx, k, r, lines) IN
    [outcome |-> IF loaded.outcome.tag = "raised" THEN loaded.outcome
                 ELSE ToSummary(sfx, loaded.outcome),
     frequencies |-> loaded.frequencies]

\* class TouchstoneLoadError(ValueError) of the lightweight loader
ServiceExceptionParent(cls) ==
    IF cls = "TouchstoneLoadError" THEN "ValueError" ELSE ExceptionParent(cls)

\* except (ValueError, OSError)
WindowCatches(cls) ==
    \E base \in {"ValueError", "OSError"} :
        cls = base \/ IsSubclass(ServiceExceptionParent(cls), base)

\* _show_load_error: the dialog, and the status bar's message
LoadErrorShown(error) ==
    [shown |-> "load_error", details |-> error.message,
     status |-> "Failed to load Touchstone file"]

\* _update_summary: the labels of the panel (the frequency range is kept as
\* the two values that the panel formats)
SummaryShown(summary) ==
    [shown |-> "summary", path |-> summary.path,
     port_count |-> DecimalString(summary.num_ports),
     freq_range |-> <<summary.frequency_start_hz, summary.frequency_stop_hz>>,
     point_count |-> DecimalString(summary.point_count),
     status |-> "Loaded"]

InitService ==
    /\ suffix \in ScanSuffixes
    /\ kind \in {"missing", "file", "dir"}
    /\ readable \in (IF kind = "file" THEN BOOLEAN ELSE {kind = "dir"})
    /\ content \in (IF kind = "file" /\ readable THEN Contents ELSE {<<>>})
    /\ other = <<>>
    /\ frequencies = <<>>
    /\ lightResult = None /\ prevResult = None
    /\ strictResult = None /\ portsResult = None
    /\ z0 = None /\ z0Result = None
    /\ UiIdle

\* MainWindow._on_open_touchstone: the file dialog returns the path, or
\* nothing when it is cancelled
OnOpenTouchstone ==
    \E selected \in BOOLEAN :
        IF ~selected
        THEN UNCHANGED vars
        ELSE LET call == LoadTouchstone(suffix, kind, readable, content)
                 result == call.outcome
             IN  /\ serviceResult' = result
                 /\ frequencies' = call.frequencies
                 /\ window' = IF result.tag = "raised"
                              THEN IF WindowCatches(result.error)
                                   THEN LoadErrorShown(result)
                                   ELSE window
                              ELSE SummaryShown(result)
                 /\ UNCHANGED <<suffix, kind, readable, content, other,
                                strictResult, portsResult, lightResult,
                                prevResult, z0, z0Result, network, traceMap,
                                currentRow, plotted, labels, stage,
                                comboItems, comboIndex>>

NextService == LoadPath \/ OnOpenTouchstone

SpecService == InitService /\ [][NextService]_vars

(***************************************************************************)
(* C12.  For every file that the lightweight loader loads successfully,    *)
(* NetworkService.load_touchstone returns a summary with the loader's port *)
(* count, first and last frequency and point count, and the main window    *)
(* shows the summary and not the load-error dialog.                        *)
(***************************************************************************)
C12_ServiceLoad ==
    lightResult.tag = "summary" /\ serviceResult # None =>
        /\ serviceResult.tag = "summary"
        /\ serviceResult.num_ports = lightResult.num_ports
        /\ serviceResult.frequency_start_hz = lightResult.frequency_start_hz
        /\ serviceResult.frequency_stop_hz = lightResult.frequency_stop_hz
        /\ serviceResult.point_count = lightResult.point_count
        /\ window.shown = "summary"

(***************************************************************************)
(* snpviewer/ui/sparam_browser.py: the browser widget, a parameter combo   *)
(* over the plot widget.  The combo box makes its first entry current when *)
(* it is filled, and signals currentTextChanged to _on_parameter_change.   *)
(***************************************************************************)
MaxBrowserPorts == 11

\* _on_parameter_change(label): the current row of the trace list after it
OnParameterChange(map, row, label) ==
    IF label # <<>> THEN SetSelectedTraceLabels(map, row, {label}) ELSE row

\* for trace in self.plot_widget._trace_map: addItem(trace.label)
ComboItems(map) == [k \in 1..Len(map) |-> TraceLabel(map[k])]

InitBrowser ==
    /\ suffix = <<>> /\ portsResult = None
    /\ Idle

\* SParameterBrowserWidget.set_network(network), on the browser as constructed
BrowserSetNetwork ==
    \E n \in 1..MaxBrowserPorts :
        LET populated == PopulateTracesFromNetwork(Network(n))
            map == populated.traceMap
            items == ComboItems(map)
            first == IF Len(items) > 0 THEN items[1] ELSE <<>>
            row == OnParameterChange(map, populated.currentRow, first)
        IN  /\ network = None
            /\ network' = Network(n)
            /\ traceMap' = map
            /\ comboItems' = items
            /\ comboIndex' = IF Len(items) > 0 THEN 0 ELSE -1
            /\ labels' = IF first # <<>> THEN {first} ELSE labels
            /\ currentRow' = row
            /\ plotted' = RefreshPlot(Network(n), map, row)
            /\ stage' = "network"
            /\ UNCHANGED <<serviceResult, window, loaderVars>>

\* the user chooses another entry of the parameter combo.  The signal
\* currentTextChanged reaches _on_parameter_change; when the text of the new
\* entry equals the text of the old one the combo box may keep the signal
\* back
BrowserChooseParameter ==
    \E k \in (0..(Len(comboItems) - 1)) \ {comboIndex} :
      \E emitted \in {TRUE} \cup {comboItems[k + 1] # comboItems[comboIndex + 1]} :
        LET label == comboItems[k + 1]
            row == IF emitted THEN OnParameterChange(traceMap, currentRow, label)
                   ELSE currentRow
        IN  /\ comboIndex' = k
            /\ labels' = IF emitted THEN {label} ELSE labels
            /\ currentRow' = row
            /\ plotted' = IF emitted THEN RefreshPlot(network, traceMap, row)
                          ELSE plotted
            /\ stage' = "chosen"
            /\ UNCHANGED <<network, traceMap, comboItems, serviceResult,
                           window, loaderVars>>

NextBrowser == BrowserSetNetwork \/ BrowserChooseParameter

SpecBrowser == InitBrowser /\ [][NextBrowser]_vars

(***************************************************************************)
(* C13.  After the browser's set_network with an n-port network the trace  *)
(* map holds the n*n traces in row-major order with pairwise distinct      *)
(* labels, and with the k-th entry of the parameter combo chosen the one   *)
(* selected and plotted trace is the k-th trace (k div n, k mod n).        *)
(***************************************************************************)
C13_BrowserAgreement ==
    network # None =>
        LET n == network.ports IN
        /\ Len(traceMap) = n * n
        /\ \A k \in 0..(n * n - 1) :
               traceMap[k + 1] = TraceSelection(k \div n, k % n)
        /\ \A a, b \in 1..Len(traceMap) :
               a # b => TraceLabel(traceMap[a]) # TraceLabel(traceMap[b])
        /\ comboIndex \in 0..(n * n - 1)
        /\ SelectedTraces(traceMap, currentRow)
               = <<TraceSelection(comboIndex \div n, comboIndex % n)>>
        /\ plotted = SelectedTraces(traceMap, currentRow)

====
